---- MODULE Spec2Model ----
(***************************************************************************)
(* Model of the rusteze real-time messaging core: the gateway connection   *)
(* (crates/gateway/src/main.rs), the token validation it depends on        *)
(* (crates/auth/src/token.rs) and the REST write path that publishes       *)
(* MessageCreate events (crates/server/src/routes/messages.rs).            *)
(***************************************************************************)
EXTENDS Integers, Sequences, FiniteSets, TLC

(***************************************************************************)
(* Bounds of the model.                                                    *)
(***************************************************************************)
\* number of sockets the gateway serves
NumConns == 3
\* capacity of the per-connection relay (broadcast::channel(256) in the
\* source); the model keeps the overflow behaviour and shrinks the size
RelayCap == 1
\* rows the write path may persist
MaxMsgs == 2
\* Pong replies written to one socket
MaxPongs == 1

\* publishes on the bus: enough to overflow one relay
MaxPub == RelayCap + 1

Conns == 1..NumConns

(***************************************************************************)
(* The relational store, as the gateway and the write path query it.       *)
(***************************************************************************)
Users == {"u1", "u2"}
ServerOrder == <<"s1", "s2">>
Servers == {ServerOrder[i] : i \in 1..Len(ServerOrder)}
Channels == {"c1", "c2"}
\* a channel id that names no row of the channels table
NoChannel == "c9"
ChannelIds == Channels \cup {NoChannel}
ChannelServer == [ch \in Channels |-> IF ch = "c1" THEN "s1" ELSE "s2"]
Members == {<<"s1", "u1">>, <<"s2", "u1">>, <<"s2", "u2">>}

is_member(server_id, user_id) == <<server_id, user_id>> \in Members

RECURSIVE SelectServers(_, _)
SelectServers(order, user_id) ==
    IF order = <<>> THEN <<>>
    ELSE IF is_member(Head(order), user_id)
         THEN <<Head(order)>> \o SelectServers(Tail(order), user_id)
         ELSE SelectServers(Tail(order), user_id)

\* SELECT s.* FROM servers s JOIN members m ... ORDER BY s.created_at
fetch_user_servers(user_id) == SelectServers(ServerOrder, user_id)

\* SELECT c.id FROM channels c JOIN members m ON m.server_id = c.server_id
user_channel_ids(user_id) ==
    {ch \in Channels : is_member(ChannelServer[ch], user_id)}

(***************************************************************************)
(* Tokens (crates/auth/src/token.rs).  A token is the signed claims; `key` *)
(* is the secret it was signed with and `wf` says whether the string has   *)
(* the structure of a token at all.                                        *)
(***************************************************************************)
JwtSecret == "secret"
OtherSecret == "other"
\* jsonwebtoken's Validation::default() accepts exp up to 60 s in the past
Leeway == 60
\* the instants at which the clock is observed
Instants == {0, 60, 61}

Token(sub, sid, iat, exp, key, wf) ==
    [sub |-> sub, sid |-> sid, iat |-> iat, exp |-> exp, key |-> key, wf |-> wf]

Claims(t) == [sub |-> t.sub, sid |-> t.sid, exp |-> t.exp, iat |-> t.iat]

\* (variant) the expiry is looked at before the signature
validate_tokenExpiryFirst(token, secret, t) ==
    IF ~token.wf THEN [ok |-> FALSE, err |-> "InvalidToken"]
    ELSE IF token.exp < t - Leeway THEN [ok |-> FALSE, err |-> "TokenExpired"]
    ELSE IF token.key # secret THEN [ok |-> FALSE, err |-> "InvalidToken"]
    ELSE [ok |-> TRUE, claims |-> Claims(token)]

\* decode::<Claims> under Validation::default(): structure, then signature,
\* then exp against the clock
validate_token(token, secret, t) ==
    IF ~token.wf THEN [ok |-> FALSE, err |-> "InvalidToken"]
    ELSE IF token.key # secret THEN [ok |-> FALSE, err |-> "InvalidToken"]
    ELSE IF token.exp < t - Leeway THEN [ok |-> FALSE, err |-> "TokenExpired"]
    ELSE [ok |-> TRUE, claims |-> Claims(token)]

\* the tokens clients present to the gateway
GatewayTokens ==
    {Token(u, 1, 0, 0, JwtSecret, TRUE) : u \in Users}
    \cup {Token("u1", 1, 0, 0, OtherSecret, TRUE),
          Token("u1", 1, 0, 0, JwtSecret, FALSE)}

(***************************************************************************)
(* The event protocol (crates/models/src/event.rs) and websocket frames.   *)
(***************************************************************************)
Authenticate(token) == [type |-> "Authenticate", token |-> token]
Ping(ts) == [type |-> "Ping", ts |-> ts]
TypingStartC(channel_id) == [type |-> "TypingStart", channel_id |-> channel_id]
\* handle_socket matches on ClientEvent::Subscribe (main.rs:216); the enum in
\* models/src/event.rs declares Authenticate, Ping and TypingStart only
Subscribe(channel_id) == [type |-> "Subscribe", channel_id |-> channel_id]
\* a JSON text with an unknown discriminator
Bogus == [type |-> "Bogus"]

Ready(user_id, servers) ==
    [type |-> "Ready", user |-> user_id, servers |-> servers,
     channels |-> <<>>, members |-> <<>>]
Pong(ts) == [type |-> "Pong", ts |-> ts]
MessageCreate(id, channel_id, author_id) ==
    [type |-> "MessageCreate", id |-> id, channel_id |-> channel_id,
     author_id |-> author_id]

\* (variant) the event names no user
TypingStartSAnonymous(channel_id, user_id) ==
    [type |-> "TypingStart", channel_id |-> channel_id, user_id |-> "none"]

TypingStartS(channel_id, user_id) ==
    [type |-> "TypingStart", channel_id |-> channel_id, user_id |-> user_id]

\* the variants enum ClientEvent declares (event.rs:69-73)
DeclaredEvents == {"Authenticate", "Ping", "TypingStart"}
\* the variants handle_socket matches on: main.rs:216 names
\* ClientEvent::Subscribe, which the enum does not declare
ClientEventTypes == DeclaredEvents \cup {"Subscribe"}

\* serde_json::from_str::<ClientEvent>(&text).is_ok(): a declared variant
\* parses, an unknown discriminator does not; for Subscribe the two files
\* disagree, and the frame parses in a build that declares the variant
\* handle_socket matches on and fails to parse in one that keeps the enum
ParseOutcomes(msg) ==
    IF msg.kind # "Text" THEN {FALSE}
    ELSE IF msg.text.type \in DeclaredEvents THEN {TRUE}
    ELSE IF msg.text.type \in ClientEventTypes THEN BOOLEAN
    ELSE {FALSE}

\* axum's ws::Message as stream.next() yields it
Text(text) == [kind |-> "Text", text |-> text]
CloseFrame == [kind |-> "Close"]
EndOfStream == [kind |-> "None"]
ReadError == [kind |-> "Err"]
Binary == [kind |-> "Binary"]

PingTs == {42, 7}

ClientTexts ==
    {Authenticate(t) : t \in GatewayTokens}
    \cup {Ping(ts) : ts \in PingTs}
    \cup {TypingStartC(ch) : ch \in Channels}
    \cup {Subscribe(ch) : ch \in Channels}
    \cup {Bogus}

WsMessages ==
    {Text(x) : x \in ClientTexts} \cup {CloseFrame, EndOfStream, ReadError, Binary}

\* the frames whose handling writes to the socket or calls the bus: the
\* outcome of that call is an input of the step only for them
Writes(m) ==
    m.kind = "Text" /\ m.text.type \in {"Ping", "TypingStart", "Subscribe"}

\* bus topics
UserTopic(user_id) == <<"user", user_id>>
ChannelTopic(channel_id) == <<"channel", channel_id>>

None == "none"

VARIABLES
    now,         \* the wall clock validate_token reads
    pc,          \* position of each connection's handle_socket task
    user_id,     \* handle_socket's user_id, None until the handshake ends
    servers,     \* handle_socket's `servers` (result of fetch_user_servers)
    channel_ids, \* handle_socket's `channel_ids` (result of user_channel_ids)
    subscribed,  \* topics the connection's bus subscriber is subscribed to
    bridge,      \* the spawned bridging task: "none", "running", "done"
    busq,        \* payloads pending in the subscriber's message_rx
    relay,       \* values retained in the relay channel for `rx`
    lagged,      \* `rx` has missed values overwritten in the relay channel
    rxOff,       \* select! has disabled the rx.recv() branch until a frame
    sent,        \* frames written to each socket, in order
    messages,    \* rows of the messages table
    published,   \* publishes the bus has accepted, in order
    last,        \* the step taken last: who acted, what on, with what input
    accounts,    \* rows of the users table
    sessions,    \* rows of the sessions table
    uuids,       \* how many identifiers Uuid::now_v7() has produced
    minted       \* the tokens create_token has signed, with the secret used

vars == <<now, pc, user_id, servers, channel_ids, subscribed, bridge, busq,
          relay, lagged, rxOff, sent, messages, published, last,
          accounts, sessions, uuids, minted>>

authVars == <<accounts, sessions, uuids, minted>>

connVars == <<pc, user_id, servers, channel_ids, subscribed, bridge, busq,
              relay, lagged, rxOff, sent>>

Label(actor, op, arg) == [actor |-> actor, op |-> op, arg |-> arg]

Init ==
    /\ now = 0
    /\ pc = [c \in Conns |-> "unopened"]
    /\ user_id = [c \in Conns |-> None]
    /\ servers = [c \in Conns |-> <<>>]
    /\ channel_ids = [c \in Conns |-> {}]
    /\ subscribed = [c \in Conns |-> {}]
    /\ bridge = [c \in Conns |-> "none"]
    /\ busq = [c \in Conns |-> <<>>]
    /\ relay = [c \in Conns |-> <<>>]
    /\ lagged = [c \in Conns |-> FALSE]
    /\ rxOff = [c \in Conns |-> FALSE]
    /\ sent = [c \in Conns |-> <<>>]
    /\ messages = <<>>
    /\ published = <<>>
    /\ last = Label(0, "init", None)
    /\ accounts = {}
    /\ sessions = {}
    /\ uuids = 0
    /\ minted = {}

\* the connection states the design names
ConnState(c) ==
    CASE pc[c] = "unopened" -> "Unopened"
      [] pc[c] = "handshake" -> "Unauthenticated"
      [] pc[c] = "closed" -> "Closed"
      [] OTHER -> "Authenticated"

(***************************************************************************)
(* The clock.                                                              *)
(***************************************************************************)
Tick(T) ==
    /\ \E t \in T : t > now /\ now' = t
    /\ last' = Label(0, "tick", None)
    /\ UNCHANGED <<connVars, messages, published>>
    /\ UNCHANGED authVars

(***************************************************************************)
(* ws_handler: a socket is upgraded and handle_socket starts.              *)
(***************************************************************************)
\* (variant) the bus subscriber and the bridging task exist from the upgrade on
AcceptEager(c) ==
    /\ pc[c] = "unopened"
    /\ pc' = [pc EXCEPT ![c] = "handshake"]
    /\ subscribed' = [subscribed EXCEPT ![c] = {ChannelTopic(ch) : ch \in Channels}]
    /\ bridge' = [bridge EXCEPT ![c] = "running"]
    /\ last' = Label(c, "accept", None)
    /\ UNCHANGED <<now, user_id, servers, channel_ids, busq, relay, lagged,
                   rxOff, sent, messages, published>>
    /\ UNCHANGED authVars

Accept(c) ==
    /\ pc[c] = "unopened"
    /\ pc' = [pc EXCEPT ![c] = "handshake"]
    /\ last' = Label(c, "accept", None)
    /\ UNCHANGED <<now, user_id, servers, channel_ids, subscribed, bridge,
                   busq, relay, lagged, rxOff, sent, messages, published>>
    /\ UNCHANGED authVars

PongCount(log) == Cardinality({i \in 1..Len(log) : log[i].type = "Pong"})

\* (variant) the token is checked against a secret that is not the configured one
AuthOutcomeWrongKey(token, t) == validate_token(token, OtherSecret, t)

\* the gateway validates the presented token with its configured secret
AuthOutcome(token, t) == validate_token(token, JwtSecret, t)

\* (variant) the reply does not echo the ts of the Ping
PongReplyStale(ts) == Pong(0)

\* the reply to Ping { ts }
PongReply(ts) == Pong(ts)

\* (variant) an error payload is written before the socket is closed
SinkCloseWithError(log) == Append(log, [type |-> "Error"])

\* sink.close() on a rejected token: no data frame is written
SinkClose(log) == log

\* (variant) only a close frame ends the connection, the end of the stream
\* is ignored
StreamEndedFrameOnly(kind, at) == IF kind = "Close" THEN "closed" ELSE at

\* `Some(Ok(Message::Close(_))) | None => return` (line 97) and `=> break`
\* (line 224): handle_socket leaves position `at` and ends
StreamEnded(kind, at) == "closed"

\* (variant) a frame that is not handled is answered with an error payload
IgnoredWithError(log) == Append(log, [type |-> "Error"])

\* the arms `_ => {}`: nothing is written for a frame that is not handled
Ignored(log) == log

\* sink.send(frame): the frame reaches the client when the write succeeds
SinkSend(log, frame, wok) == IF wok THEN Append(log, frame) ELSE log

(***************************************************************************)
(* handle_socket, the handshake loop: one stream.next() and its match.     *)
(***************************************************************************)
HandshakeRead(c, msg, wok) ==
    /\ pc[c] = "handshake"
    /\ Writes(msg) \/ wok
    /\ \E parsed \in ParseOutcomes(msg) :
       /\ last' = Label(c, "read",
                        [msg |-> msg, wok |-> wok, parsed |-> parsed])
       /\ IF parsed
          THEN CASE msg.text.type = "Authenticate" ->
                   LET r == AuthOutcome(msg.text.token, now) IN
                   IF r.ok
                   THEN /\ pc' = [pc EXCEPT ![c] = "authed"]
                        /\ user_id' = [user_id EXCEPT ![c] = r.claims.sub]
                        /\ UNCHANGED sent
                   ELSE /\ pc' = [pc EXCEPT ![c] = "closed"]
                        /\ sent' = [sent EXCEPT ![c] = SinkClose(@)]
                        /\ UNCHANGED user_id
              [] msg.text.type = "Ping" ->
                   /\ PongCount(sent[c]) < MaxPongs
                   /\ sent' = [sent EXCEPT ![c] = SinkSend(@, PongReply(msg.text.ts), wok)]
                   /\ UNCHANGED <<pc, user_id>>
              [] OTHER ->
                   /\ sent' = [sent EXCEPT ![c] = Ignored(@)]
                   /\ UNCHANGED <<pc, user_id>>
          ELSE IF msg.kind \in {"Close", "None"}
          THEN /\ pc' = [pc EXCEPT ![c] = StreamEnded(msg.kind, @)]
               /\ UNCHANGED <<user_id, sent>>
          ELSE /\ sent' = [sent EXCEPT ![c] = Ignored(@)]
               /\ UNCHANGED <<pc, user_id>>
    /\ UNCHANGED <<now, servers, channel_ids, subscribed, bridge, busq, relay,
                   lagged, rxOff, messages, published>>
    /\ UNCHANGED authVars

(***************************************************************************)
(* handle_socket after the handshake: the lookups and the Ready event      *)
(* (lines 102-142).  A failed lookup is unwrap_or_default().               *)
(***************************************************************************)
\* (variant) a failed lookup ends the connection
AfterReadyLookupFatal(srvOk, chOk, wok) ==
    IF srvOk /\ chOk /\ wok THEN "subscribing" ELSE "closed"

\* where handle_socket goes after the lookups and the Ready write: it
\* returns when the write failed (lines 140-142), the lookups' errors are
\* gone in unwrap_or_default()
AfterReady(srvOk, chOk, wok) == IF wok THEN "subscribing" ELSE "closed"

SendReady(c, srvOk, chOk, wok) ==
    /\ pc[c] = "authed"
    /\ last' = Label(c, "ready", [srvOk |-> srvOk, chOk |-> chOk, wok |-> wok])
    /\ LET srv == IF srvOk THEN fetch_user_servers(user_id[c]) ELSE <<>>
           chs == IF chOk THEN user_channel_ids(user_id[c]) ELSE {}
       IN /\ servers' = [servers EXCEPT ![c] = srv]
          /\ channel_ids' = [channel_ids EXCEPT ![c] = chs]
          /\ sent' = [sent EXCEPT ![c] = SinkSend(@, Ready(user_id[c], srv), wok)]
          /\ pc' = [pc EXCEPT ![c] = AfterReady(srvOk, chOk, wok)]
    /\ UNCHANGED <<now, user_id, subscribed, bridge, busq, relay, lagged,
                   rxOff, messages, published>>
    /\ UNCHANGED authVars

\* (variant) the personal topic is left out of the initial subscriptions
InitialTopicsNoUser(c) == {ChannelTopic(ch) : ch \in channel_ids[c]}

\* the topics handle_socket subscribes to before the relay loop
InitialTopics(c) ==
    {UserTopic(user_id[c])} \cup {ChannelTopic(ch) : ch \in channel_ids[c]}

\* (variant) a subscribe call replaces the client's earlier subscriptions
SubscribeTopicsReplace(subs, topics) == topics

\* subscriber.subscribe(topic): the bus holds a set of topics per client
SubscribeTopics(subs, topics) == subs \cup topics

\* (variant) a subscribe call that fails ends the connection
AfterSubscribeStrict(initOk, failed) ==
    IF initOk /\ failed = {} THEN "spawning" ELSE "closed"

\* where handle_socket goes after the initial subscribe calls: it returns
\* when subscriber.init() failed (lines 154-156); the result of each
\* subscribe call is bound to `let _` (lines 159, 163)
AfterSubscribe(initOk, failed) == IF initOk THEN "spawning" ELSE "closed"

(***************************************************************************)
(* The subscriber client and the initial subscriptions (lines 144-169).    *)
(* `failed` are the topics whose subscribe call returned an error.         *)
(***************************************************************************)
InitSubscriber(c, initOk, failed) ==
    /\ pc[c] = "subscribing"
    /\ last' = Label(c, "subscribe_all", [initOk |-> initOk, failed |-> failed])
    /\ IF initOk
       THEN /\ subscribed' = [subscribed EXCEPT
                                ![c] = SubscribeTopics(@, InitialTopics(c) \ failed)]
            /\ pc' = [pc EXCEPT ![c] =
                         AfterSubscribe(initOk, InitialTopics(c) \cap failed)]
       ELSE /\ pc' = [pc EXCEPT ![c] =
                         AfterSubscribe(initOk, InitialTopics(c) \cap failed)]
            /\ UNCHANGED subscribed
    /\ UNCHANGED <<now, user_id, servers, channel_ids, bridge, busq, relay,
                   lagged, rxOff, sent, messages, published>>
    /\ UNCHANGED authVars

(***************************************************************************)
(* The relay channel, message_rx() and the spawned bridging task           *)
(* (lines 171-182).                                                        *)
(***************************************************************************)
SpawnBridge(c) ==
    /\ pc[c] = "spawning"
    /\ last' = Label(c, "spawn", None)
    /\ bridge' = [bridge EXCEPT ![c] = "running"]
    /\ pc' = [pc EXCEPT ![c] = "loop"]
    /\ UNCHANGED <<now, user_id, servers, channel_ids, subscribed, busq, relay,
                   lagged, rxOff, sent, messages, published>>
    /\ UNCHANGED authVars

\* PUBLISH topic payload: one copy for every subscriber client of the topic
\* whose message_rx receiver exists (a message that arrives before
\* message_rx() is called has no receiver and is lost)
Receivers(subs, br, topic) ==
    {d \in Conns : topic \in subs[d] /\ br[d] = "running"}

BusDeliver(q, subs, br, topic, payload) ==
    [d \in Conns |-> IF d \in Receivers(subs, br, topic)
                     THEN Append(q[d], payload) ELSE q[d]]

\* (variant) the bridging task wraps the payload in an envelope of its own
RelaySendEnveloped(q, payload, cap) ==
    IF Len(q) < cap THEN Append(q, [type |-> "Relayed", inner |-> payload])
    ELSE Append(Tail(q), [type |-> "Relayed", inner |-> payload])

\* tx_clone.send(payload) on tokio's broadcast channel: it never waits; when
\* the channel holds `cap` values the oldest one is overwritten
RelaySend(q, payload, cap) ==
    IF Len(q) < cap THEN Append(q, payload) ELSE Append(Tail(q), payload)

\* the bridging task: one message_rx.recv() and the send into the relay
BridgeStep(c) ==
    /\ bridge[c] = "running"
    /\ busq[c] # <<>>
    /\ last' = Label(c, "bridge", None)
    /\ busq' = [busq EXCEPT ![c] = Tail(@)]
    /\ IF pc[c] = "loop"
       THEN /\ relay' = [relay EXCEPT ![c] = RelaySend(@, Head(busq[c]), RelayCap)]
            /\ lagged' = [lagged EXCEPT ![c] = @ \/ Len(relay[c]) >= RelayCap]
       ELSE UNCHANGED <<relay, lagged>>
    /\ UNCHANGED <<now, pc, user_id, servers, channel_ids, subscribed, bridge,
                   rxOff, sent, messages, published>>
    /\ UNCHANGED authVars

\* message_rx.recv() returns Err once the subscriber is gone: the task ends
BridgeExit(c) ==
    /\ bridge[c] = "running"
    /\ busq[c] = <<>>
    /\ pc[c] = "closed"
    /\ last' = Label(c, "bridge_exit", None)
    /\ bridge' = [bridge EXCEPT ![c] = "done"]
    /\ UNCHANGED <<now, pc, user_id, servers, channel_ids, subscribed, busq,
                   relay, lagged, rxOff, sent, messages, published>>
    /\ UNCHANGED authVars

\* (variant) one subscriber client serves every connection: quitting it
\* releases the subscriptions of all of them
QuitShared(subs, c) == [d \in Conns |-> {}]

\* (variant) the loop ends without quitting the subscriber
QuitForgotten(subs, c) == subs

\* subscriber.quit() and the drop of the subscriber at the end of handle_socket
Quit(subs, c) == [subs EXCEPT ![c] = {}]

(***************************************************************************)
(* The relay loop, outbound branch of select! (lines 188-192).             *)
(***************************************************************************)
RelayRecv(c, wok) ==
    /\ pc[c] = "loop"
    /\ ~rxOff[c]
    /\ last' = Label(c, "relay", [wok |-> wok])
    /\ IF lagged[c]
       THEN \* Err(Lagged): the pattern Ok(payload) fails, the branch is off
            /\ lagged' = [lagged EXCEPT ![c] = FALSE]
            /\ rxOff' = [rxOff EXCEPT ![c] = TRUE]
            /\ UNCHANGED <<pc, relay, sent, subscribed>>
       ELSE /\ relay[c] # <<>>
            /\ relay' = [relay EXCEPT ![c] = Tail(@)]
            /\ sent' = [sent EXCEPT ![c] = SinkSend(@, Head(relay[c]), wok)]
            /\ IF wok
               THEN UNCHANGED <<pc, subscribed>>
               ELSE /\ pc' = [pc EXCEPT ![c] = "closed"]
                    /\ subscribed' = Quit(subscribed, c)
            /\ UNCHANGED <<lagged, rxOff>>
    /\ UNCHANGED <<now, user_id, servers, channel_ids, bridge, busq, messages,
                   published>>
    /\ UNCHANGED authVars

(***************************************************************************)
(* The relay loop, inbound branch of select! (lines 194-227).              *)
(***************************************************************************)
\* (variant) an Authenticate frame read in the relay loop is validated and
\* rebinds the connection to the user of its token
BoundUserRevalidated(bound, msg, t) ==
    IF msg.kind = "Text" /\ msg.text.type = "Authenticate"
       /\ AuthOutcome(msg.text.token, t).ok
    THEN AuthOutcome(msg.text.token, t).claims.sub
    ELSE bound

\* user_id is bound once, by `break claims.sub` (line 82), to an immutable
\* local; the match of the relay loop has no arm for Authenticate
BoundUser(bound, msg, t) == bound

LoopRead(c, msg, ok) ==
    /\ pc[c] = "loop"
    /\ Writes(msg) \/ ok
    /\ rxOff' = [rxOff EXCEPT ![c] = FALSE]
    /\ user_id' = [user_id EXCEPT ![c] = BoundUser(@, msg, now)]
    /\ \E parsed \in ParseOutcomes(msg) :
       /\ last' = Label(c, "read",
                        [msg |-> msg, wok |-> ok, parsed |-> parsed])
       /\ IF parsed
          THEN CASE msg.text.type = "Ping" ->
                   /\ PongCount(sent[c]) < MaxPongs
                   /\ sent' = [sent EXCEPT ![c] = SinkSend(@, PongReply(msg.text.ts), ok)]
                   /\ UNCHANGED <<pc, subscribed, busq, published>>
              [] msg.text.type = "TypingStart" ->
                   LET topic == ChannelTopic(msg.text.channel_id)
                       payload == TypingStartS(msg.text.channel_id, user_id[c])
                   IN IF ok
                      THEN /\ Len(published) < MaxPub
                           /\ published' = Append(published,
                                 [topic |-> topic, payload |-> payload, by |-> c,
                                  to |-> Receivers(subscribed, bridge, topic)])
                           /\ busq' = BusDeliver(busq, subscribed, bridge, topic, payload)
                           /\ UNCHANGED <<pc, subscribed, sent>>
                      ELSE UNCHANGED <<pc, subscribed, sent, busq, published>>
              [] msg.text.type = "Subscribe" ->
                   /\ subscribed' = [subscribed EXCEPT ![c] =
                          IF ok THEN SubscribeTopics(@, {ChannelTopic(msg.text.channel_id)})
                          ELSE @]
                   /\ UNCHANGED <<pc, sent, busq, published>>
              [] OTHER ->
                   /\ sent' = [sent EXCEPT ![c] = Ignored(@)]
                   /\ UNCHANGED <<pc, subscribed, busq, published>>
          ELSE IF msg.kind \in {"Close", "None"}
          THEN /\ pc' = [pc EXCEPT ![c] = StreamEnded(msg.kind, @)]
               /\ subscribed' = Quit(subscribed, c)
               /\ UNCHANGED <<sent, busq, published>>
          ELSE /\ sent' = [sent EXCEPT ![c] = Ignored(@)]
               /\ UNCHANGED <<pc, subscribed, busq, published>>
    /\ UNCHANGED <<now, servers, channel_ids, bridge, relay, lagged, messages>>
    /\ UNCHANGED authVars

(***************************************************************************)
(* The REST write path (crates/server/src/routes/messages.rs).             *)
(***************************************************************************)
\* (variant) the channel is looked up, the membership is not
verify_channel_accessExistsOnly(user, channel_id) ==
    IF channel_id \notin Channels THEN "NOT_FOUND" ELSE "OK"

\* channel_server_id then is_member
verify_channel_access(user, channel_id) ==
    IF channel_id \notin Channels THEN "NOT_FOUND"
    ELSE IF ~is_member(ChannelServer[channel_id], user) THEN "FORBIDDEN"
    ELSE "OK"

\* the row create_message inserts and returns
MessageRow(id, channel_id, user) ==
    [id |-> id, channel_id |-> channel_id, author_id |-> user]

\* (variant) the error of the publish is returned to the caller
PublishedThenPropagated(response, pubOk) ==
    IF pubOk THEN response ELSE [status |-> 500, message |-> "internal error"]

\* `let _: Result<(), _> = publish(..).await;` then Ok(Json(msg)): the
\* outcome of the publish is dropped
PublishedThen(response, pubOk) == response

\* what send_message answers
SendMessageResponse(user, channel_id, row, persistOk, pubOk) ==
    CASE verify_channel_access(user, channel_id) = "NOT_FOUND" ->
            [status |-> 404, message |-> "channel not found"]
      [] verify_channel_access(user, channel_id) = "FORBIDDEN" ->
            [status |-> 403, message |-> "not a member of this server"]
      [] ~persistOk -> [status |-> 500, message |-> "internal error"]
      [] OTHER -> PublishedThen([status |-> 200, body |-> row], pubOk)

send_message(user, channel_id, persistOk, pubOk) ==
    /\ last' = Label(0, "send_message",
                     [user |-> user, channel_id |-> channel_id,
                      persistOk |-> persistOk, pubOk |-> pubOk,
                      response |->
                         SendMessageResponse(
                             user, channel_id,
                             MessageRow(Len(messages) + 1, channel_id, user),
                             persistOk, pubOk)])
    /\ IF verify_channel_access(user, channel_id) = "OK" /\ persistOk
       THEN /\ Len(messages) < MaxMsgs
            /\ LET id == Len(messages) + 1
                   payload == MessageCreate(id, channel_id, user)
                   topic == ChannelTopic(channel_id)
               IN /\ messages' = Append(messages,
                                         MessageRow(id, channel_id, user))
                  /\ IF pubOk
                     THEN /\ Len(published) < MaxPub
                          /\ published' = Append(published,
                                [topic |-> topic, payload |-> payload, by |-> 0,
                                 to |-> Receivers(subscribed, bridge, topic)])
                          /\ busq' = BusDeliver(busq, subscribed, bridge, topic, payload)
                     ELSE UNCHANGED <<busq, published>>
       ELSE UNCHANGED <<messages, busq, published>>
    /\ UNCHANGED <<now, pc, user_id, servers, channel_ids, subscribed, bridge,
                   relay, lagged, rxOff, sent>>
    /\ UNCHANGED authVars

(***************************************************************************)
(* The system: the gateway's connections, the write path and the clock.    *)
(* CS are the sockets that get opened, In what their clients send, Oks the *)
(* outcomes of writes and bus calls, DbOks those of the store.             *)
(***************************************************************************)
AllTopics ==
    {UserTopic(u) : u \in Users} \cup {ChannelTopic(ch) : ch \in Channels}

\* P.conns: the sockets that get opened; P.in: what their clients send;
\* P.oks: outcomes of socket writes and bus calls; P.dboks: outcomes of the
\* store; P.failed: sets of topics whose subscribe call fails; P.writers and
\* P.chans: who writes messages where; P.clock: the instants the clock reaches
Step(P) ==
    \/ Tick(P.clock)
    \/ \E c \in P.conns : Accept(c)
    \/ \E c \in P.conns, m \in P.in, w \in P.oks : HandshakeRead(c, m, w)
    \/ \E c \in P.conns, s \in P.dboks, h \in P.dboks, w \in P.oks :
          SendReady(c, s, h, w)
    \/ \E c \in P.conns, i \in P.oks, f \in P.failed : InitSubscriber(c, i, f)
    \/ \E c \in P.conns : SpawnBridge(c)
    \/ \E c \in P.conns : BridgeStep(c)
    \/ \E c \in P.conns : BridgeExit(c)
    \/ \E c \in P.conns, w \in P.oks : RelayRecv(c, w)
    \/ \E c \in P.conns, m \in P.in, w \in P.oks : LoopRead(c, m, w)
    \/ \E u \in P.writers, ch \in P.chans, p \in P.dboks, b \in P.oks :
          send_message(u, ch, p, b)

GoodToken(u) == Token(u, 1, 0, 0, JwtSecret, TRUE)

\* one connection, every kind of frame and of token, failing socket writes
\* and bus calls
SocketFaults ==
    [conns |-> {1},
     in |-> {Text(Authenticate(t)) : t \in GatewayTokens}
            \cup {Text(Ping(ts)) : ts \in PingTs}
            \cup {Text(TypingStartC("c1")), Text(Bogus),
                  CloseFrame, EndOfStream, ReadError, Binary},
     oks |-> BOOLEAN, dboks |-> {TRUE}, failed |-> {{}},
     writers |-> {"u1"}, chans |-> {"c1"}, clock |-> {61}]

Next == Step(SocketFaults)

Spec == Init /\ [][Next]_vars

\* one connection, failing store lookups and failing subscribe calls
StoreFaults ==
    [conns |-> {1},
     in |-> {Text(Authenticate(t)) : t \in GatewayTokens}
            \cup {Text(Subscribe("c1")), CloseFrame},
     oks |-> BOOLEAN, dboks |-> BOOLEAN,
     failed |-> {{}} \cup {{t} : t \in AllTopics},
     writers |-> {"u1"}, chans |-> {"c1"}, clock |-> {61}]

NextStore == Step(StoreFaults)

SpecStore == Init /\ [][NextStore]_vars

\* one connection that subscribes, types, sends unknown events and relays,
\* failing socket writes and bus calls (Ping is exercised under Spec)
Relaying ==
    [conns |-> {1},
     in |-> {Text(Authenticate(GoodToken(u))) : u \in Users}
            \cup {Text(Subscribe(ch)) : ch \in Channels}
            \cup {Text(TypingStartC("c1")), Text(Bogus), CloseFrame},
     oks |-> BOOLEAN, dboks |-> {TRUE}, failed |-> {{}},
     writers |-> {"u1"}, chans |-> {"c1"}, clock |-> {61}]

NextRelay == Step(Relaying)

SpecRelay == Init /\ [][NextRelay]_vars

\* two connections of two users that share channel c2, nothing fails
Pair ==
    [conns |-> {1, 2},
     in |-> {Text(Authenticate(GoodToken(u))) : u \in Users} \cup {CloseFrame},
     oks |-> {TRUE}, dboks |-> {TRUE}, failed |-> {{}},
     writers |-> {"u1"}, chans |-> {"c2"}, clock |-> {61}]

NextPair == Step(Pair)

SpecPair == Init /\ [][NextPair]_vars

\* one connection that authenticates, relays and ends in every way the loop
\* can end; the runtime runs the bridging task whenever it can take a step
Closing ==
    [conns |-> {1},
     in |-> {Text(Authenticate(GoodToken("u1"))), Text(Ping(42)),
             CloseFrame, EndOfStream, ReadError},
     oks |-> BOOLEAN, dboks |-> {TRUE}, failed |-> {{}},
     writers |-> {"u1"}, chans |-> {"c1"}, clock |-> {61}]

NextClosing == Step(Closing)

SpecClosing ==
    /\ Init
    /\ [][NextClosing]_vars
    /\ \A c \in Conns : WF_vars(BridgeStep(c)) /\ WF_vars(BridgeExit(c))

(***************************************************************************)
(* Properties.                                                             *)
(***************************************************************************)
\* the step leading to the primed state is connection c reading a text frame
\* that parses as the client event `type`
ReadsText(c, l, type) ==
    /\ l.actor = c
    /\ l.op = "read"
    /\ l.arg.msg.kind = "Text"
    /\ l.arg.msg.text.type = type

topic_of(p) == p.topic

\* operations of the connection's own task (the bridging task is another task)
BridgeOps == {"bridge", "bridge_exit"}

Count(log, frame) == Cardinality({i \in 1..Len(log) : log[i] = frame})
TypeCount(log, type) == Cardinality({i \in 1..Len(log) : log[i].type = type})

\* C1: a connection starts Unauthenticated, becomes Authenticated only by
\* reading an Authenticate frame whose token validates (user_id bound to the
\* claims' sub), never goes back to Unauthenticated, and once Closed stays
\* Closed and neither reads, writes nor publishes.
C1_StateMachine ==
    [][\A c \in Conns :
        /\ pc[c] = "unopened" => pc'[c] \in {"unopened", "handshake"}
        /\ (ConnState(c) = "Unauthenticated" /\ ConnState(c)' = "Authenticated") =>
              /\ ReadsText(c, last', "Authenticate")
              /\ validate_token(last'.arg.msg.text.token, JwtSecret, now).ok
              /\ user_id'[c] =
                   validate_token(last'.arg.msg.text.token, JwtSecret, now).claims.sub
        /\ ConnState(c) = "Authenticated" =>
              ConnState(c)' \in {"Authenticated", "Closed"}
        /\ ConnState(c) = "Closed" =>
              /\ ConnState(c)' = "Closed"
              /\ sent'[c] = sent[c]
              /\ user_id'[c] = user_id[c]
              /\ subscribed'[c] = subscribed[c]
              /\ last'.actor = c => last'.op \in BridgeOps
              /\ published' # published => published'[Len(published')].by # c
      ]_vars

\* a connection that was authenticated, was served and is closed for good
C1_Witness ==
    \E c \in Conns :
        /\ pc[c] = "closed"
        /\ user_id[c] # None
        /\ TypeCount(sent[c], "Ready") = 1
        /\ bridge[c] = "done"

\* C2: until its token has been validated a connection holds no bus
\* subscription, no bridging task and no relayed payload, and every frame
\* written to its socket is a Pong.
C2_NoTrafficBeforeAuth ==
    \A c \in Conns :
        /\ ConnState(c) = "Unauthenticated" => user_id[c] = None
        /\ user_id[c] = None =>
              /\ subscribed[c] = {}
              /\ bridge[c] = "none"
              /\ busq[c] = <<>>
              /\ relay[c] = <<>>
              /\ \A i \in 1..Len(sent[c]) : sent[c][i].type = "Pong"

\* an unauthenticated connection that got a Pong while the bus carried events
C2_Witness ==
    \E c \in Conns :
        /\ pc[c] = "handshake"
        /\ sent[c] # <<>>
        /\ published # <<>>

\* C3: an Authenticate frame whose token fails validation closes an
\* Unauthenticated connection without any frame written and without a
\* subscriber.
C3_RejectedTokenClosesSilently ==
    [][\A c \in Conns :
        (/\ ConnState(c) = "Unauthenticated"
         /\ ReadsText(c, last', "Authenticate")
         /\ ~validate_token(last'.arg.msg.text.token, JwtSecret, now).ok)
        => /\ pc'[c] = "closed"
           /\ sent'[c] = sent[c]
           /\ user_id'[c] = None
           /\ subscribed'[c] = {}
           /\ bridge'[c] = "none"
      ]_vars

\* a connection closed by an expired token
C3_Witness ==
    /\ last.op = "read"
    /\ last.arg.msg.kind = "Text"
    /\ last.arg.msg.text.type = "Authenticate"
    /\ ~validate_token(last.arg.msg.text.token, JwtSecret, now).ok
    /\ validate_token(last.arg.msg.text.token, JwtSecret, now).err = "TokenExpired"
    /\ pc[last.actor] = "closed"
    /\ sent[last.actor] = <<>>

\* C8: a Ping{ts} read while Unauthenticated or in the relay loop is answered
\* with Pong{ts} of the same ts and changes nothing else of the connection.
C8_PingPong ==
    [][\A c \in Conns :
        (pc[c] \in {"handshake", "loop"} /\ ReadsText(c, last', "Ping"))
        => /\ sent'[c] = SinkSend(sent[c], Pong(last'.arg.msg.text.ts), last'.arg.wok)
           /\ pc'[c] = pc[c]
           /\ user_id'[c] = user_id[c]
           /\ subscribed'[c] = subscribed[c]
           /\ published' = published
      ]_vars

\* Ping{42} before authenticating: Pong{42} received, still Unauthenticated
C8_Witness ==
    \E c \in Conns :
        /\ ReadsText(c, last, "Ping")
        /\ last.arg.msg.text.ts = 42
        /\ ConnState(c) = "Unauthenticated"
        /\ sent[c] = <<Pong(42)>>

\* C4 (as stated): once a connection has authenticated and subscribed, it
\* has received exactly one Ready listing every server its user is a member
\* of, and it is subscribed to user:<user_id> and to channel:<id> for every
\* channel the user can access.
C4_ReadyAndTopics ==
    \A c \in Conns :
        pc[c] \in {"spawning", "loop"} =>
            /\ TypeCount(sent[c], "Ready") = 1
            /\ Count(sent[c], Ready(user_id[c], fetch_user_servers(user_id[c]))) = 1
            /\ {UserTopic(user_id[c])}
                 \cup {ChannelTopic(ch) : ch \in user_channel_ids(user_id[c])}
               \subseteq subscribed[c]

\* C4 (amended): the one Ready lists what the server lookup returned (every
\* server of the user when it succeeded, nothing when it failed), and the
\* initial subscriptions are user:<user_id> and channel:<id> for every id
\* the channel lookup returned (none when it failed), less the topics whose
\* subscribe call failed.
C4_ReadyAndTopicsOfLookups ==
    [][\A c \in Conns :
        /\ (last'.actor = c /\ last'.op = "ready" /\ pc[c] = "authed") =>
              /\ sent'[c] = SinkSend(sent[c],
                    Ready(user_id[c],
                          IF last'.arg.srvOk
                          THEN fetch_user_servers(user_id[c]) ELSE <<>>),
                    last'.arg.wok)
              /\ channel_ids'[c] =
                    IF last'.arg.chOk THEN user_channel_ids(user_id[c]) ELSE {}
              /\ pc'[c] = IF last'.arg.wok THEN "subscribing" ELSE "closed"
        /\ (last'.actor = c /\ last'.op = "subscribe_all" /\ pc[c] = "subscribing"
              /\ last'.arg.initOk) =>
              subscribed'[c] =
                 ({UserTopic(user_id[c])}
                    \cup {ChannelTopic(ch) : ch \in channel_ids[c]})
                 \ last'.arg.failed
        /\ TypeCount(sent'[c], "Ready") <= 1
        /\ pc'[c] \in {"subscribing", "spawning", "loop"} =>
              TypeCount(sent'[c], "Ready") = 1
      ]_vars

\* u1, member of two servers, authenticated with every lookup succeeding
C4_Witness ==
    \E c \in Conns :
        /\ pc[c] = "spawning"
        /\ user_id[c] = "u1"
        /\ sent[c] = <<Ready("u1", <<"s1", "s2">>)>>
        /\ subscribed[c] =
             {UserTopic("u1"), ChannelTopic("c1"), ChannelTopic("c2")}

Settled(c) ==
    /\ pc[c] = "loop"
    /\ busq[c] = <<>>
    /\ relay[c] = <<>>
    /\ ~lagged[c]
    /\ ~rxOff[c]

\* C5: a MessageCreate published by send_message is written exactly once to
\* the socket of every connection that was subscribed to the channel's topic
\* when it was published (once the connection has relayed what it holds),
\* and never to the socket of a connection that was not.
C5_FanoutExactlyOnce ==
    \A i \in 1..Len(published) :
        published[i].payload.type = "MessageCreate" =>
            \A c \in Conns :
                /\ Count(sent[c], published[i].payload) <= 1
                /\ c \notin published[i].to =>
                      Count(sent[c], published[i].payload) = 0
                /\ (c \in published[i].to /\ Settled(c)) =>
                      Count(sent[c], published[i].payload) = 1

\* C6: the bridging task's send into the relay never loses a payload: it
\* happens only when the relay has room (it waits otherwise) and appends to
\* what the relay holds.
C6_RelayNeverDrops ==
    [][\A c \in Conns :
        (last'.actor = c /\ last'.op = "bridge" /\ pc[c] = "loop")
        => /\ Len(relay[c]) < RelayCap
           /\ relay'[c] = Append(relay[c], Head(busq[c]))
           /\ ~lagged'[c]
      ]_vars

\* C7: a closed connection holds no topic subscription, and its bridging
\* task, if one was spawned, ends after it; a bridging task ends only once
\* its connection is closed.
C7_Teardown ==
    \A c \in Conns :
        /\ [](pc[c] = "closed" => subscribed[c] = {})
        /\ [](bridge[c] = "done" => pc[c] = "closed")
        /\ (pc[c] = "closed") ~> (bridge[c] # "running")

\* an authenticated connection was closed and its bridging task has just ended
C7_Witness ==
    \E c \in Conns :
        /\ last = Label(c, "bridge_exit", None)
        /\ pc[c] = "closed"
        /\ user_id[c] # None
        /\ subscribed[c] = {}
        /\ bridge[c] = "done"

\* what a connection owns: its task's position and locals, its subscription
\* set, its bridging task, its relay channel and its socket
Own(c) ==
    <<pc[c], user_id[c], servers[c], channel_ids[c], subscribed[c], bridge[c],
      relay[c], lagged[c], rxOff[c], sent[c]>>

\* C10: a step of one connection (or of no connection) leaves what every
\* other connection owns untouched; a publish reaches each subscriber
\* whatever the others hold in their relays; and a connection's bridging
\* task and relay loop can take their next step whenever its own queues hold
\* a payload, whatever the state of the other connections.
C10_Isolation ==
    /\ [][\A c \in Conns :
            /\ last'.actor # c => Own(c)' = Own(c)
            /\ (last'.actor # c /\ busq'[c] # busq[c]) =>
                  /\ published' # published
                  /\ topic_of(published'[Len(published')]) \in subscribed[c]
                  /\ busq'[c] = Append(busq[c], published'[Len(published')].payload)
            /\ (published' # published
                  /\ topic_of(published'[Len(published')]) \in subscribed[c]
                  /\ bridge[c] = "running") =>
                 busq'[c] = Append(busq[c], published'[Len(published')].payload)
        ]_vars
    /\ [](\A c \in Conns :
            /\ (bridge[c] = "running" /\ busq[c] # <<>>) => ENABLED BridgeStep(c)
            /\ (pc[c] = "loop" /\ ~rxOff[c] /\ ~lagged[c] /\ relay[c] # <<>>) =>
                  ENABLED RelayRecv(c, TRUE))

\* connection c is slow (its relay is full and has already overflowed) while
\* connection d has been served an event published to both
C10_Witness ==
    \E c, d \in Conns :
        /\ c # d
        /\ pc[c] = "loop" /\ pc[d] = "loop"
        /\ Len(relay[c]) = RelayCap
        /\ lagged[c]
        /\ \E i \in 1..Len(published) :
              /\ {c, d} \subseteq published[i].to
              /\ Count(sent[d], published[i].payload) = 1
              /\ Count(sent[c], published[i].payload) = 0

(***************************************************************************)
(* The token functions on their own (crates/auth/src/token.rs):            *)
(* create_token and validate_token called with any user, session, secret   *)
(* and at any instant.                                                     *)
(***************************************************************************)
\* tokens create_token signs in one run
MaxMinted == 2

\* Duration::days(30), in seconds
Lifetime == 30 * 24 * 60 * 60

Secrets == {JwtSecret, OtherSecret}
SessionIds == {1, 2}

\* the instants the clock reaches around a token's expiry
ExpiryInstants ==
    {1, Lifetime, Lifetime + 1, Lifetime + Leeway, Lifetime + Leeway + 1,
     Lifetime + Leeway + 2}

\* (variant) the token expires the moment it is issued
create_tokenNoLifetime(user, session_id, secret, t) ==
    Token(user, session_id, t, t, secret, TRUE)

\* create_token: claims {sub, sid, exp: now + 30 days, iat: now}, signed
\* with the secret
create_token(user, session_id, secret, t) ==
    Token(user, session_id, t, t + Lifetime, secret, TRUE)

\* a string that is no token
Malformed == Token("u1", 1, 0, 0, JwtSecret, FALSE)

\* what a call of create_token leaves behind: its arguments and its result
Minted(user, session_id, secret, t) ==
    [user_id |-> user, session_id |-> session_id, secret |-> secret,
     at |-> t, token |-> create_token(user, session_id, secret, t)]

\* a call of create_token
IssueToken(user, session_id, secret) ==
    /\ Cardinality(minted) < MaxMinted
    /\ minted' = minted \cup {Minted(user, session_id, secret, now)}
    /\ last' = Label(0, "create_token",
                     Minted(user, session_id, secret, now))
    /\ UNCHANGED <<now, connVars, messages, published, accounts, sessions,
                   uuids>>

\* a call of validate_token
ValidateToken(token, secret) ==
    /\ last' = Label(0, "validate_token",
                     [token |-> token, secret |-> secret,
                      result |-> validate_token(token, secret, now)])
    /\ UNCHANGED <<now, connVars, messages, published, authVars>>

NextToken ==
    \/ Tick(ExpiryInstants)
    \/ \E u \in Users, sid \in SessionIds, s \in Secrets :
          IssueToken(u, sid, s)
    \/ \E m \in minted, s \in Secrets : ValidateToken(m.token, s)
    \/ \E s \in Secrets : ValidateToken(Malformed, s)

SpecToken == Init /\ [][NextToken]_vars

InvalidTokenError == [ok |-> FALSE, err |-> "InvalidToken"]
TokenExpiredError == [ok |-> FALSE, err |-> "TokenExpired"]

(***************************************************************************)
(* C11: a token validated with the secret it was issued with, before its   *)
(* expiry, yields claims whose sub and sid are the user and the session    *)
(* create_token was given, and whose exp - iat is the 30-day lifetime.     *)
(***************************************************************************)
C11_RoundTrip ==
    \A m \in minted :
        now <= m.at + Lifetime =>
            LET r == validate_token(m.token, m.secret, now) IN
            /\ r.ok
            /\ r.claims.sub = m.user_id
            /\ r.claims.sid = m.session_id
            /\ r.claims.exp - r.claims.iat = Lifetime

\* a token issued at one instant is validated at a later one, before expiry
C11_Witness ==
    /\ last.op = "validate_token"
    /\ last.arg.result.ok
    /\ \E m \in minted :
          /\ m.token = last.arg.token
          /\ m.secret = last.arg.secret
          /\ m.at < now
          /\ now <= m.at + Lifetime

(***************************************************************************)
(* C12: a correctly signed token validated at any time after its exp fails *)
(* with TokenExpired; no leeway is applied.                                *)
(***************************************************************************)
C12_ExpiredAfterExp ==
    \A m \in minted :
        now > m.token.exp =>
            validate_token(m.token, m.secret, now) = TokenExpiredError

(***************************************************************************)
(* C13: validation with a secret other than the one the token was issued   *)
(* with fails with InvalidToken, whatever the instant, and never returns   *)
(* claims.                                                                 *)
(***************************************************************************)
C13_WrongSecret ==
    \A m \in minted : \A s \in Secrets :
        s # m.secret => validate_token(m.token, s, now) = InvalidTokenError

\* an expired token is validated with the other secret
C13_Witness ==
    /\ last.op = "validate_token"
    /\ last.arg.result = InvalidTokenError
    /\ last.arg.token.wf
    /\ last.arg.token.key # last.arg.secret
    /\ last.arg.token.exp < now - Leeway

(***************************************************************************)
(* Accounts and sessions (crates/auth/src/session.rs, password.rs and      *)
(* crates/db/src/users.rs) and the REST surface that serves them           *)
(* (crates/server/src/routes/auth.rs, extract.rs, error.rs).               *)
(***************************************************************************)
\* identifiers Uuid::now_v7() hands out in one run
MaxUuids == 4

\* the text of the n-th identifier, where it names a user
UuidText == <<"id1", "id2", "id3", "id4", "id5", "id6", "id7", "id8">>

\* (variant) the generator repeats its first value
now_v7Repeats(n) == 1

\* Uuid::now_v7(): a value no earlier call returned
now_v7(n) == n + 1

Usernames == {"ann"}
Emails == {"a@x", "b@x"}
Passwords == {"pw1", "pw2"}
Salts == {"salt1"}

\* hash_password: the Argon2id hash string of the password under a salt
hash_password(password, salt) ==
    [alg |-> "argon2id", salt |-> salt, digest |-> <<salt, password>>]

\* (variant) every password verifies
verify_passwordAny(password, hash) == TRUE

\* verify_password: the stored string parses as a hash and the password
\* hashes to it under its salt
verify_password(password, hash) ==
    /\ hash.alg = "argon2id"
    /\ hash.digest = <<hash.salt, password>>

\* sha256_hex: the digest of the token string
sha256_hex(token) == [sha256 |-> token]

UserRow(id, username, email, password_hash) ==
    [id |-> id, username |-> username, email |-> email,
     password_hash |-> password_hash]

\* (variant) the row stores the digest of a constant, not of the token
SessionRowConstantHash(id, user, token_hash) ==
    [id |-> id, user_id |-> user, token_hash |-> sha256_hex(Malformed)]

\* the row of INSERT INTO sessions (id, user_id, token_hash)
SessionRow(id, user, token_hash) ==
    [id |-> id, user_id |-> user, token_hash |-> token_hash]

\* the users table refuses a second row with the same email
StoreOutcomes(accts, email) ==
    IF \E a \in accts : a.email = email
    THEN {"duplicate", "down"}
    ELSE {"ok", "down"}

AuthErr(kind) == [ok |-> FALSE, err |-> kind]
\* AuthError::Db(DbError::Sqlx(e)): the store's own error, wrapped twice
DbSqlx == [ok |-> FALSE, err |-> "Db", db |-> "Sqlx"]

\* create_user: INSERT ... RETURNING *, any sqlx error becomes DbError::Sqlx
create_user(accts, row, outcome) ==
    IF outcome = "ok"
    THEN [ok |-> TRUE, rows |-> accts \cup {row}, row |-> row]
    ELSE [ok |-> FALSE, rows |-> accts, err |-> DbSqlx]

\* find_by_email: the row with that email, NotFound without one, the sqlx
\* error when the query fails
find_by_email(accts, email, dbOk) ==
    IF ~dbOk THEN [ok |-> FALSE, err |-> "Sqlx"]
    ELSE IF \E a \in accts : a.email = email
    THEN [ok |-> TRUE, row |-> CHOOSE a \in accts : a.email = email]
    ELSE [ok |-> FALSE, err |-> "NotFound"]

\* (variant) the error of the INSERT is dropped
insert_sessionErrorDropped(rows, row, dbOk) ==
    [ok |-> TRUE, rows |-> IF dbOk THEN rows \cup {row} ELSE rows]

\* INSERT INTO sessions (id, user_id, token_hash), followed by `?`
insert_session(rows, row, dbOk) ==
    IF dbOk THEN [ok |-> TRUE, rows |-> rows \cup {row}]
    ELSE [ok |-> FALSE, rows |-> rows]

LoginResult(user, session_id, token) ==
    [ok |-> TRUE, user_id |-> user, session_id |-> session_id,
     token |-> token]

\* impl From<AuthError> for ApiError
ApiError(e) ==
    CASE e.err = "InvalidCredentials" ->
            [status |-> 401, message |-> "invalid credentials"]
      [] e.err = "AccountNotFound" ->
            [status |-> 404, message |-> "account not found"]
      [] e.err \in {"TokenExpired", "InvalidToken"} ->
            [status |-> 401, message |-> "invalid or expired token"]
      [] OTHER -> [status |-> 500, message |-> "internal error"]

\* the routes register and login: Json(AuthResponse) or the ApiError
AuthResponse(result) ==
    IF result.ok
    THEN [status |-> 200, user_id |-> result.user_id, token |-> result.token]
    ELSE ApiError(result)

\* what session minting did to the store, and its result
Outcome(accts, n, mint, sess, result) ==
    [accounts |-> accts, uuids |-> n, minted |-> mint, sessions |-> sess,
     result |-> result]

\* the steps register and login share once they hold the user row: a new
\* session id, create_token, sha256_hex, the INSERT of the session row.
\* n is the number of identifiers produced so far.
MintSession(accts, user, n, sessOk) ==
    LET session_id == now_v7(n)
        m == Minted(user, session_id, JwtSecret, now)
        ins == insert_session(sessions,
                              SessionRow(session_id, user,
                                         sha256_hex(m.token)), sessOk)
    IN  Outcome(accts, session_id, minted \cup {m}, ins.rows,
                IF ins.ok THEN LoginResult(user, session_id, m.token)
                ELSE DbSqlx)

\* session::register, statement by statement
register_outcome(username, email, password, salt, hashOk, store, sessOk) ==
    LET id == now_v7(uuids)
        row == UserRow(UuidText[id], username, email,
                       hash_password(password, salt))
        cu == create_user(accounts, row, store)
    IN  IF ~hashOk
        THEN Outcome(accounts, uuids, minted, sessions,
                     AuthErr("InvalidCredentials"))
        ELSE IF ~cu.ok
        THEN Outcome(accounts, id, minted, sessions, cu.err)
        ELSE MintSession(cu.rows, row.id, id, sessOk)

\* which statements of a call ran, and how each ended
Ran(hashed, store, session) ==
    [hashed |-> hashed, store |-> store, session |-> session]

\* POST /auth/register: the route and session::register
register(username, email, password, salt, hashOk, store, sessOk) ==
    /\ uuids + 2 <= MaxUuids
    /\ store \in StoreOutcomes(accounts, email)
    /\ LET o == register_outcome(username, email, password, salt, hashOk,
                                 store, sessOk)
       IN  /\ accounts' = o.accounts
           /\ uuids' = o.uuids
           /\ minted' = o.minted
           /\ sessions' = o.sessions
           /\ last' = Label(0, "register",
                  [username |-> username, email |-> email,
                   password |-> password,
                   ran |-> Ran(hashOk,
                               IF hashOk THEN store ELSE None,
                               IF hashOk /\ store = "ok"
                               THEN (IF sessOk THEN "ok" ELSE "failed")
                               ELSE None),
                   result |-> o.result,
                   response |-> AuthResponse(o.result)])
    /\ UNCHANGED <<now, connVars, messages, published>>

\* session::login, statement by statement
login_outcome(email, password, findOk, sessOk) ==
    LET found == find_by_email(accounts, email, findOk)
    IN  IF ~found.ok
        THEN Outcome(accounts, uuids, minted, sessions,
                     AuthErr("AccountNotFound"))
        ELSE IF ~verify_password(password, found.row.password_hash)
        THEN Outcome(accounts, uuids, minted, sessions,
                     AuthErr("InvalidCredentials"))
        ELSE MintSession(accounts, found.row.id, uuids, sessOk)

\* POST /auth/login: the route and session::login
login(email, password, findOk, sessOk) ==
    /\ uuids + 1 <= MaxUuids
    /\ LET o == login_outcome(email, password, findOk, sessOk)
           found == find_by_email(accounts, email, findOk)
           verified == /\ found.ok
                       /\ verify_password(password,
                                          found.row.password_hash)
       IN  /\ uuids' = o.uuids
           /\ minted' = o.minted
           /\ sessions' = o.sessions
           /\ last' = Label(0, "login",
                  [email |-> email, password |-> password,
                   ran |-> [found |-> IF found.ok THEN "ok" ELSE found.err,
                            verified |-> verified,
                            session |-> IF verified
                                        THEN (IF sessOk THEN "ok"
                                              ELSE "failed")
                                        ELSE None],
                   result |-> o.result,
                   response |-> AuthResponse(o.result)])
    /\ UNCHANGED <<now, connVars, messages, published, accounts>>

(***************************************************************************)
(* The AuthUser extractor (crates/server/src/extract.rs) in front of every *)
(* authenticated route.                                                    *)
(***************************************************************************)
\* Authorization header values: none, bytes that are no visible ASCII, and
\* text made of a scheme prefix and the rest
NoHeader == [present |-> FALSE]
OpaqueHeader == [present |-> TRUE, text |-> FALSE]
Header(scheme, rest) ==
    [present |-> TRUE, text |-> TRUE, scheme |-> scheme, rest |-> rest]
Bearer(token) == Header("Bearer ", token)

\* (variant) a header without the Bearer prefix carries no token
strip_prefixStrict(header) ==
    IF header.scheme = "Bearer " THEN header.rest
    ELSE [header.rest EXCEPT !.wf = FALSE]

\* header.strip_prefix("Bearer ").unwrap_or(header): the rest after the
\* prefix, else the whole value, which is a token only without any scheme
strip_prefix(header) ==
    IF header.scheme = "Bearer " THEN header.rest
    ELSE IF header.scheme = "" THEN header.rest
    ELSE [header.rest EXCEPT !.wf = FALSE]

Unauthorized == [ok |-> FALSE, status |-> 401]

\* (variant) the session record of the token must exist
from_request_partsSessionChecked(header, secret, t) ==
    IF ~header.present \/ ~header.text THEN Unauthorized
    ELSE LET token == strip_prefix(header)
             v == validate_token(token, secret, t)
         IN  IF v.ok /\ \E r \in sessions : r.token_hash = sha256_hex(token)
             THEN [ok |-> TRUE, user |-> v.claims.sub]
             ELSE Unauthorized

\* AuthUser::from_request_parts
from_request_parts(header, secret, t) ==
    IF ~header.present \/ ~header.text THEN Unauthorized
    ELSE LET v == validate_token(strip_prefix(header), secret, t)
         IN  IF v.ok THEN [ok |-> TRUE, user |-> v.claims.sub]
             ELSE Unauthorized

\* a request to a route that takes AuthUser: the handler runs with the
\* extracted user, or the rejection is the response
request(header) ==
    /\ LET a == from_request_parts(header, JwtSecret, now)
       IN  last' = Label(0, "request",
                  [header |-> header, extracted |-> a,
                   handler |-> IF a.ok THEN a.user ELSE None,
                   response |-> IF a.ok THEN [status |-> 200]
                                ELSE [status |-> a.status]])
    /\ UNCHANGED <<now, connVars, messages, published, authVars>>

\* the header values clients send: every token the server has signed,
\* under each scheme, and values that hold no token
Schemes == {"Bearer ", "", "Basic "}
Headers ==
    {NoHeader, OpaqueHeader}
    \cup {Header(sc, m.token) : sc \in Schemes, m \in minted}
    \cup {Header(sc, Malformed) : sc \in {"Bearer "}}

\* the instants the clock reaches while sessions live and after they expire
SessionInstants == {1, Lifetime + Leeway + 1}

NextAuth ==
    \/ Tick(SessionInstants)
    \/ \E u \in Usernames, e \in Emails, p \in Passwords, sa \in Salts,
          h \in BOOLEAN, st \in {"ok", "duplicate", "down"}, so \in BOOLEAN :
          register(u, e, p, sa, h, st, so)
    \/ \E e \in Emails, p \in Passwords, f \in BOOLEAN, so \in BOOLEAN :
          login(e, p, f, so)
    \/ \E h \in Headers : request(h)

SpecAuth == Init /\ [][NextAuth]_vars

\* the step just taken is a call of op
Called(op) == last'.op = op /\ last' # last

\* the token a header carries when it is text
Carried(header) == header.rest

(***************************************************************************)
(* C14: a REST request is accepted exactly when validate_token accepts the *)
(* token in its Authorization: Bearer header; the acting user is the       *)
(* token's sub; a missing header or a failing token is rejected and no     *)
(* handler runs.                                                           *)
(***************************************************************************)
C14_BearerTokenDecides ==
    [][Called("request") =>
        LET a == last'.arg
            h == a.header
            bearer == h.present /\ h.text /\ h.scheme = "Bearer "
        IN  /\ (a.handler # None) <=>
                   (bearer /\ validate_token(Carried(h), JwtSecret, now').ok)
            /\ a.handler # None =>
                   a.handler =
                       validate_token(Carried(h), JwtSecret, now').claims.sub
            /\ a.handler = None => a.response.status = 401]_vars

(***************************************************************************)
(* C14 as the code has it: a REST request is accepted exactly when its     *)
(* Authorization header is text and validate_token accepts what follows an *)
(* optional "Bearer " prefix (a header holding the token alone counts);    *)
(* the acting user is the token's sub; every other request is answered 401 *)
(* and no handler runs.                                                    *)
(***************************************************************************)
C14_HeaderTokenDecides ==
    [][Called("request") =>
        LET a == last'.arg
            h == a.header
            carries == h.present /\ h.text /\ h.scheme \in {"Bearer ", ""}
        IN  /\ (a.handler # None) <=>
                   (carries /\ validate_token(Carried(h), JwtSecret, now').ok)
            /\ a.handler # None =>
                   a.handler =
                       validate_token(Carried(h), JwtSecret, now').claims.sub
            /\ a.handler = None => a.response.status = 401]_vars

\* a request whose header is the token alone has reached its handler
C14_Witness ==
    /\ last.op = "request"
    /\ last.arg.header.present
    /\ last.arg.header.text
    /\ last.arg.header.scheme = ""
    /\ last.arg.handler # None
    /\ last.arg.handler = Carried(last.arg.header).sub

(***************************************************************************)
(* C15: whether a token is accepted depends on its structure, its          *)
(* signature, its exp and the clock alone, whatever the sessions table     *)
(* holds, also when no session row has the token's digest.                 *)
(***************************************************************************)
C15_Stateless ==
    [][Called("request") =>
        LET a == last'.arg
            h == a.header
            tok == Carried(h)
        IN  a.extracted.ok <=>
                /\ h.present
                /\ h.text
                /\ h.scheme \in {"Bearer ", ""}
                /\ tok.wf
                /\ tok.key = JwtSecret
                /\ tok.exp >= now' - Leeway]_vars

\* a token is accepted although the sessions table, which has rows, has
\* none with its digest
C15_Witness ==
    /\ last.op = "request"
    /\ last.arg.extracted.ok
    /\ sessions # {}
    /\ \A r \in sessions :
          r.token_hash # sha256_hex(Carried(last.arg.header))

(***************************************************************************)
(* C16: a successful login returns a session id and a token that no        *)
(* earlier login or registration returned, and leaves every earlier token  *)
(* as valid as it was: each validates until its own exp.                   *)
(***************************************************************************)
C16_IndependentSessions ==
    [][(Called("login") /\ last'.arg.result.ok) =>
        LET r == last'.arg.result IN
        /\ \A m \in minted :
              /\ m.session_id # r.session_id
              /\ m.token # r.token
        /\ \A row \in sessions : row.id # r.session_id
        /\ \A m \in minted' :
              now' <= m.token.exp =>
                  from_request_parts(Bearer(m.token), JwtSecret, now').ok
        /\ \A m \in minted :
              from_request_parts(Bearer(m.token), JwtSecret, now').ok
                  = from_request_parts(Bearer(m.token), JwtSecret, now).ok]_vars

\* the second successful login of an account that registered: three
\* sessions of one user, each with its own token
C16_Witness ==
    /\ last.op = "login"
    /\ last.arg.result.ok
    /\ Cardinality({row \in sessions :
                       row.user_id = last.arg.result.user_id}) >= 3
    /\ Cardinality({row.token_hash : row \in sessions}) >= 3

(***************************************************************************)
(* C17: login returns AccountNotFound when no user row has the email and   *)
(* InvalidCredentials when the password does not verify against the stored *)
(* hash; either way no session row is written and no token is issued.      *)
(***************************************************************************)
C17_LoginFailures ==
    [][Called("login") =>
        LET a == last'.arg
            known == \E acct \in accounts : acct.email = a.email
            matches == \E acct \in accounts :
                          /\ acct.email = a.email
                          /\ acct.password_hash =
                                hash_password(a.password,
                                              acct.password_hash.salt)
        IN  /\ ~known =>
                  /\ a.result = AuthErr("AccountNotFound")
                  /\ UNCHANGED <<sessions, minted>>
            /\ (known /\ a.ran.found = "ok" /\ ~matches) =>
                  /\ a.result = AuthErr("InvalidCredentials")
                  /\ UNCHANGED <<sessions, minted>>
            /\ ~a.result.ok => a.response.status # 200]_vars

\* a login with the wrong password for an account that has a session
C17_Witness ==
    /\ last.op = "login"
    /\ last.arg.ran.found = "ok"
    /\ last.arg.result = AuthErr("InvalidCredentials")
    /\ sessions # {}

(***************************************************************************)
(* C18: when register's INSERT of the session row fails after the user row *)
(* was created, register returns an error and no token, and the user row   *)
(* stays in the store.                                                     *)
(***************************************************************************)
C18_NoRollback ==
    [][(Called("register") /\ last'.arg.ran.session = "failed") =>
        LET a == last'.arg IN
        /\ ~a.result.ok
        /\ a.response.status # 200
        /\ \E acct \in accounts' \ accounts : acct.email = a.email
        /\ sessions' = sessions]_vars

\* a registration whose session INSERT failed has left the user row
C18_Witness ==
    /\ last.op = "register"
    /\ last.arg.ran.session = "failed"
    /\ \E acct \in accounts : acct.email = last.arg.email
    /\ \A acct \in accounts : \A row \in sessions : row.user_id # acct.id

(***************************************************************************)
(* C19: when the store rejects the new user row as a duplicate, register   *)
(* fails with an AlreadyExists error, writes no session row and returns no *)
(* token.                                                                  *)
(***************************************************************************)
C19_DuplicateIsAlreadyExists ==
    [][(Called("register") /\ last'.arg.ran.store = "duplicate") =>
        LET a == last'.arg IN
        /\ ~a.result.ok
        /\ \/ a.result = [ok |-> FALSE, err |-> "Db", db |-> "AlreadyExists"]
           \/ a.result = AuthErr("AlreadyExists")
           \/ a.response = [status |-> 409, message |-> "already exists"]
        /\ UNCHANGED <<sessions, minted>>]_vars

(***************************************************************************)
(* C20: over REST, the response to a login with a wrong password for an    *)
(* existing account and the response to a login for an account that does   *)
(* not exist are the same.                                                 *)
(***************************************************************************)
C20_NoAccountOracle ==
    [][(/\ last.op = "login"
        /\ Called("login")
        /\ last.arg.result = AuthErr("InvalidCredentials")
        /\ last.arg.ran.found = "ok"
        /\ last'.arg.ran.found = "NotFound")
       => last'.arg.response = last.arg.response]_vars

(***************************************************************************)
(* C21: when publishing the MessageCreate event fails, send_message still  *)
(* answers success with the persisted row, the row stays in the messages   *)
(* table, nothing reaches the bus and the answer shows no trace of the     *)
(* failure.                                                                *)
(***************************************************************************)
C21_PublishFailureSwallowed ==
    [][/\ (/\ last'.op = "send_message"
           /\ verify_channel_access(last'.arg.user, last'.arg.channel_id) = "OK"
           /\ last'.arg.persistOk
           /\ ~last'.arg.pubOk)
          => LET row == MessageRow(Len(messages) + 1, last'.arg.channel_id,
                                   last'.arg.user)
             IN  /\ messages' = Append(messages, row)
                 /\ last'.arg.response = [status |-> 200, body |-> row]
                 /\ published' = published
                 /\ busq' = busq
       /\ Len(messages') >= Len(messages)
       /\ SubSeq(messages', 1, Len(messages)) = messages]_vars

\* a message was persisted and answered with 200 while its publish failed
C21_Witness ==
    /\ last.op = "send_message"
    /\ ~last.arg.pubOk
    /\ last.arg.response.status = 200
    /\ messages # <<>>
    /\ last.arg.response.body = messages[Len(messages)]
    /\ published = <<>>

(***************************************************************************)
(* C22: when the membership or server lookup fails during the handshake,   *)
(* the connection is not closed: it reaches Authenticated with zero        *)
(* subscriptions.                                                          *)
(***************************************************************************)
C22_LookupFailureZeroSubscriptions ==
    [][\A c \in Conns :
        /\ (/\ last'.actor = c
            /\ last'.op = "ready"
            /\ ~(last'.arg.srvOk /\ last'.arg.chOk)
            /\ last'.arg.wok)
           => ConnState(c)' = "Authenticated"
        /\ (/\ last'.actor = c
            /\ last'.op = "subscribe_all"
            /\ last'.arg.initOk
            /\ last'.arg.failed = {}
            /\ channel_ids[c] # user_channel_ids(user_id[c]))
           => /\ ConnState(c)' = "Authenticated"
              /\ subscribed'[c] = {}
      ]_vars

(***************************************************************************)
(* C22 as the code has it: a failed lookup does not close the connection;  *)
(* a failed server lookup leaves Ready without servers, a failed channel   *)
(* lookup leaves the connection without channel subscriptions, subscribed  *)
(* to its user:<user_id> topic only.                                       *)
(***************************************************************************)
C22_LookupFailureOnlyUserTopic ==
    [][\A c \in Conns :
        /\ (/\ last'.actor = c
            /\ last'.op = "ready"
            /\ ~(last'.arg.srvOk /\ last'.arg.chOk)
            /\ last'.arg.wok)
           => /\ ConnState(c)' = "Authenticated"
              /\ ~last'.arg.srvOk =>
                    sent'[c] = Append(sent[c], Ready(user_id[c], <<>>))
              /\ ~last'.arg.chOk => channel_ids'[c] = {}
        /\ (/\ last'.actor = c
            /\ last'.op = "subscribe_all"
            /\ last'.arg.initOk
            /\ channel_ids[c] # user_channel_ids(user_id[c]))
           => /\ ConnState(c)' = "Authenticated"
              /\ subscribed'[c] = {UserTopic(user_id[c])} \ last'.arg.failed
      ]_vars

\* u1, member of two servers, is in the relay loop after both lookups
\* failed: no server in Ready, the personal topic as only subscription
C22_Witness ==
    \E c \in Conns :
        /\ pc[c] = "loop"
        /\ user_id[c] = "u1"
        /\ sent[c] = <<Ready("u1", <<>>)>>
        /\ channel_ids[c] = {}
        /\ subscribed[c] = {UserTopic("u1")}

(***************************************************************************)
(* Password hashing as pure calls (auth/src/password.rs).  hash_password   *)
(* draws its salt from the operating system's generator; verify_password   *)
(* is given any stored string: a hash made earlier or a string that is no  *)
(* hash at all.                                                            *)
(***************************************************************************)
PasswordTexts == {"pw1", "pw2", "pw3", "pw4", "pw5", "pw6"}
SaltTexts == {"salt1", "salt2", "salt3"}

\* stored strings that PasswordHash::new rejects
MalformedHashes == {[alg |-> "plain", text |-> "pw1"], [alg |-> "empty"]}

\* PasswordHash::new(hash): the stored string has the form of a hash
PasswordHash_new(hash) == hash.alg = "argon2id"

\* (variant) a stored string that is no hash is reported as its own error
verify_passwordResultTellsReason(password, hash) ==
    IF ~PasswordHash_new(hash) THEN AuthErr("Internal")
    ELSE IF hash.digest # <<hash.salt, password>>
    THEN AuthErr("InvalidCredentials")
    ELSE [ok |-> TRUE]

\* verify_password as the AuthResult it returns: both map_err closures
\* produce InvalidCredentials
verify_passwordResult(password, hash) ==
    IF ~PasswordHash_new(hash) THEN AuthErr("InvalidCredentials")
    ELSE IF hash.digest # <<hash.salt, password>>
    THEN AuthErr("InvalidCredentials")
    ELSE [ok |-> TRUE]

\* a call of hash_password
HashPassword(password, salt) ==
    /\ last' = Label(0, "hash_password",
                     [password |-> password,
                      hash |-> hash_password(password, salt)])
    /\ UNCHANGED <<now, connVars, messages, published, authVars>>

\* the string the caller holds: the result of the last call's hash
StoredHashes ==
    IF last.op \in {"hash_password", "verify_password"}
    THEN {last.arg.hash} ELSE {}

\* a call of verify_password
VerifyPassword(password, hash) ==
    /\ last' = Label(0, "verify_password",
                     [password |-> password, hash |-> hash,
                      result |-> verify_passwordResult(password, hash)])
    /\ UNCHANGED <<now, connVars, messages, published, authVars>>

NextPassword ==
    \/ \E p \in PasswordTexts, s \in SaltTexts : HashPassword(p, s)
    \/ \E p \in PasswordTexts, h \in StoredHashes : VerifyPassword(p, h)
    \/ \E p \in PasswordTexts, h \in MalformedHashes : VerifyPassword(p, h)

SpecPassword == Init /\ [][NextPassword]_vars

(***************************************************************************)
(* C23: verifying the password a hash was made of succeeds; verifying any  *)
(* other password against it fails; a wrong password and a stored string   *)
(* that is no hash fail with the same error, InvalidCredentials.           *)
(***************************************************************************)
C23_VerifyMatchesHash ==
    last.op = "verify_password" =>
        /\ (\E s \in SaltTexts :
                last.arg.hash = hash_password(last.arg.password, s))
           => last.arg.result = [ok |-> TRUE]
        /\ (\E p \in PasswordTexts \ {last.arg.password}, s \in SaltTexts :
                last.arg.hash = hash_password(p, s))
           => last.arg.result = AuthErr("InvalidCredentials")
        /\ last.arg.hash \in MalformedHashes
           => last.arg.result = AuthErr("InvalidCredentials")

\* a password verified against the hash of a different password
C23_Witness ==
    /\ last.op = "verify_password"
    /\ last.arg.password = "pw2"
    /\ last.arg.hash = hash_password("pw1", "salt2")
    /\ last.arg.result = AuthErr("InvalidCredentials")

\* connection c reads frame msg in this step
Reads(c, msg) ==
    /\ last'.actor = c
    /\ last'.op = "read"
    /\ last'.arg.msg = msg

(***************************************************************************)
(* C24: a read error on the socket closes the connection, while            *)
(* Unauthenticated and while Authenticated: the connection reads no        *)
(* further frame.                                                          *)
(***************************************************************************)
C24_ReadErrorCloses ==
    [][\A c \in Conns : Reads(c, ReadError) => pc'[c] = "closed"]_vars

(***************************************************************************)
(* C25: in Authenticated a failed socket write, of a relayed payload or of *)
(* a Pong reply, ends the loop: the connection is Closed after the step.   *)
(***************************************************************************)
C25_WriteErrorCloses ==
    [][\A c \in Conns :
        /\ (/\ pc[c] = "loop"
            /\ last'.actor = c
            /\ last'.op = "relay"
            /\ ~lagged[c]
            /\ ~last'.arg.wok)
           => pc'[c] = "closed"
        /\ (/\ pc[c] = "loop"
            /\ \E ts \in PingTs \cup {42} : Reads(c, Text(Ping(ts)))
            /\ ~last'.arg.wok)
           => pc'[c] = "closed"
      ]_vars

(***************************************************************************)
(* C26: the initial subscriptions are in place when Ready is sent: a       *)
(* connection whose client has been sent Ready is subscribed to every      *)
(* topic of its initial topic set, and an event published on one of these  *)
(* topics from then on reaches it.                                         *)
(***************************************************************************)
C26_SubscribedBeforeReady ==
    \A c \in Conns :
        (/\ pc[c] \in {"subscribing", "spawning", "loop"}
         /\ \E i \in 1..Len(sent[c]) : sent[c][i].type = "Ready")
        => /\ InitialTopics(c) \subseteq subscribed[c]
           /\ bridge[c] = "running"

C28_SubscribeAdds ==
    [][\A c \in Conns :
        /\ \A ch \in Channels :
              (/\ pc[c] = "loop"
               /\ Reads(c, Text(Subscribe(ch)))
               /\ last'.arg.wok)
              => ChannelTopic(ch) \in subscribed'[c]
        /\ (ConnState(c) = "Authenticated" /\ ConnState(c)' = "Authenticated")
           => subscribed[c] \subseteq subscribed'[c]
      ]_vars

(***************************************************************************)
(* C29: in Authenticated a TypingStart{channel_id} frame causes one        *)
(* publish, on channel:<channel_id>, of TypingStart{channel_id, user_id}   *)
(* with the user_id of the connection's validated token; when the bus      *)
(* refuses the publish nothing is published; in neither case is anything   *)
(* written to the sender's socket.                                         *)
(***************************************************************************)
C29_TypingRepublished ==
    [][\A c \in Conns : \A ch \in Channels :
        (pc[c] = "loop" /\ Reads(c, Text(TypingStartC(ch))))
        => /\ sent'[c] = sent[c]
           /\ IF last'.arg.wok
              THEN /\ Len(published') = Len(published) + 1
                   /\ SubSeq(published', 1, Len(published)) = published
                   /\ published'[Len(published')].topic = ChannelTopic(ch)
                   /\ published'[Len(published')].payload =
                         [type |-> "TypingStart", channel_id |-> ch,
                          user_id |-> user_id[c]]
                   /\ user_id[c] \in Users
              ELSE published' = published
      ]_vars

\* u2 has typed in c1: the event on channel:c1 names u2 and the socket of
\* u2 has been written Ready only
C29_Witness ==
    \E c \in Conns :
        /\ last.actor = c
        /\ last.op = "read"
        /\ last.arg.msg = Text(TypingStartC("c1"))
        /\ last.arg.wok
        /\ user_id[c] = "u2"
        /\ published # <<>>
        /\ published[Len(published)].topic = ChannelTopic("c1")
        /\ published[Len(published)].payload.user_id = "u2"
        /\ Len(sent[c]) = 1

(***************************************************************************)
(* C30: a frame that is no accepted event for the state is ignored: an     *)
(* event other than Authenticate and Ping while Unauthenticated, and a     *)
(* text that parses as no known event in either state, cause no outbound   *)
(* frame, no publish, no subscription and no change of state.              *)
(***************************************************************************)
C30_UnacceptedIgnored ==
    [][\A c \in Conns :
        (/\ last'.actor = c
         /\ last'.op = "read"
         /\ last'.arg.msg.kind = "Text"
         /\ \/ /\ pc[c] = "handshake"
               /\ last'.arg.msg.text.type \notin {"Authenticate", "Ping"}
            \/ ~last'.arg.parsed)
        => /\ sent' = sent
           /\ published' = published
           /\ busq' = busq
           /\ subscribed' = subscribed
           /\ pc' = pc
           /\ user_id' = user_id
      ]_vars

\* an unknown event was read in the relay loop and was dropped: the
\* socket has been written Ready only, nothing was published
C30_Witness ==
    \E c \in Conns :
        /\ last.actor = c
        /\ last.op = "read"
        /\ last.arg.msg = Text(Bogus)
        /\ ~last.arg.parsed
        /\ pc[c] = "loop"
        /\ Len(sent[c]) = 1
        /\ subscribed[c] = InitialTopics(c)
        /\ published = <<>>

(***************************************************************************)
(* C31: a close frame or the end of the stream closes the connection from  *)
(* either state: an Unauthenticated connection is Closed at once and has   *)
(* never had a bus subscriber, an Authenticated one leaves its relay loop. *)
(***************************************************************************)
C31_CloseOrEndCloses ==
    /\ [][\A c \in Conns :
            (Reads(c, CloseFrame) \/ Reads(c, EndOfStream))
            => /\ pc[c] \in {"handshake", "loop"}
               /\ ConnState(c)' = "Closed"
               /\ sent'[c] = sent[c]
               /\ pc[c] = "handshake" =>
                     /\ user_id'[c] = None
                     /\ subscribed'[c] = {}
                     /\ bridge'[c] = "none"
         ]_vars
    /\ [](\A c \in Conns :
            (pc[c] = "closed" /\ user_id[c] = None) =>
                subscribed[c] = {} /\ bridge[c] = "none")

\* the stream of an Authenticated connection has ended and the connection
\* is Closed
C31_Witness ==
    \E c \in Conns :
        /\ last.actor = c
        /\ last.op = "read"
        /\ last.arg.msg = EndOfStream
        /\ user_id[c] = "u1"
        /\ pc[c] = "closed"
        /\ bridge[c] # "none"

\* the frames of a socket's log that the relay loop wrote: all but the Ready
\* event and the Pong replies, which handle_socket writes itself
FromRelay(log) ==
    SelectSeq(log, LAMBDA f : f.type \notin {"Ready", "Pong"})

\* the payloads the bus handed to connection c, in publish order
HandedTo(c) ==
    LET mine == SelectSeq(published, LAMBDA p : c \in p.to)
    IN  [i \in 1..Len(mine) |-> mine[i].payload]

\* a is b with some elements left out
RECURSIVE IsSubsequence(_, _)
IsSubsequence(a, b) ==
    IF a = <<>> THEN TRUE
    ELSE IF b = <<>> THEN FALSE
    ELSE IF Head(a) = Head(b) THEN IsSubsequence(Tail(a), Tail(b))
    ELSE IsSubsequence(a, Tail(b))

Writing ==
    [conns |-> {1},
     in |-> {Text(Authenticate(GoodToken("u1"))), CloseFrame},
     oks |-> BOOLEAN, dboks |-> BOOLEAN, failed |-> {{}},
     writers |-> Users, chans |-> {"c1", NoChannel}, clock |-> {61}]

NextWrite == Step(Writing)

SpecWrite == Init /\ [][NextWrite]_vars

(***************************************************************************)
(* C33: send_message publishes its MessageCreate only when the channel     *)
(* exists, the caller is a member of its server and the row was inserted;  *)
(* the event goes to channel:<channel_id> of the channel written to and    *)
(* carries the inserted row; in every other case nothing is published and  *)
(* nothing is persisted.                                                   *)
(***************************************************************************)
C33_PublishAfterPersist ==
    [][last'.op = "send_message" =>
         LET user == last'.arg.user
             ch == last'.arg.channel_id
             allowed == /\ ch \in Channels
                        /\ is_member(ChannelServer[ch], user)
                        /\ last'.arg.persistOk
         IN  /\ published' # published =>
                  /\ allowed
                  /\ messages' = Append(messages,
                                        MessageRow(Len(messages) + 1, ch, user))
                  /\ published' = Append(published, published'[Len(published')])
                  /\ published'[Len(published')].topic = ChannelTopic(ch)
                  /\ published'[Len(published')].payload =
                        MessageCreate(Len(messages) + 1, ch, user)
             /\ ~allowed =>
                  /\ published' = published
                  /\ busq' = busq
                  /\ messages' = messages
                  /\ last'.arg.response.status # 200
      ]_vars

\* u1's message to c1 is persisted and published; u2, no member of c1's
\* server, has then been refused and nothing more was published
C33_Witness ==
    /\ last.op = "send_message"
    /\ last.arg.user = "u2"
    /\ last.arg.channel_id = "c1"
    /\ last.arg.response.status = 403
    /\ messages = <<MessageRow(1, "c1", "u1")>>
    /\ Len(published) = 1
    /\ published[1].topic = ChannelTopic("c1")
    /\ published[1].payload = MessageCreate(1, "c1", "u1")

(***************************************************************************)
(* C34: a register or login that returns a result has inserted exactly one *)
(* session row, whose id and user_id are the sid and sub of the returned   *)
(* token and whose token_hash is the digest of that token; a call that     *)
(* returns no result inserts none; no step updates or deletes a session    *)
(* row.                                                                    *)
(***************************************************************************)
C34_OneSessionPerResult ==
    [][/\ sessions \subseteq sessions'
       /\ (Called("register") \/ Called("login")) =>
            LET r == last'.arg.result IN
            IF r.ok
            THEN /\ validate_token(r.token, JwtSecret, now').ok
                 /\ r.session_id = r.token.sid
                 /\ r.user_id = r.token.sub
                 /\ sessions' \ sessions =
                       {[id |-> r.token.sid, user_id |-> r.token.sub,
                         token_hash |-> sha256_hex(r.token)]}
            ELSE sessions' = sessions
      ]_vars

\* a registration and a later login of the same account have each left
\* their own session row
C34_Witness ==
    /\ last.op = "login"
    /\ last.arg.result.ok
    /\ Cardinality(sessions) = 2
    /\ \A row \in sessions : row.user_id = last.arg.result.user_id
    /\ \E row \in sessions :
          /\ row.id = last.arg.result.session_id
          /\ row.token_hash = sha256_hex(last.arg.result.token)

(***************************************************************************)
(* C35: a store failure during login's user lookup is reported as the      *)
(* opaque store failure; login reports AccountNotFound only when the       *)
(* lookup succeeded and found no user with that email.                     *)
(***************************************************************************)
C35_LookupFailureIsStoreFailure ==
    [][Called("login") =>
        /\ last'.arg.ran.found = "Sqlx" =>
              /\ last'.arg.result = DbSqlx
              /\ last'.arg.response.status = 500
        /\ last'.arg.result = AuthErr("AccountNotFound") =>
              last'.arg.ran.found = "NotFound"
      ]_vars

(***************************************************************************)
(* C36: the user_id a connection was bound to at authentication never      *)
(* changes; an Authenticate frame read in the relay loop, even one with a  *)
(* valid token of another user, is ignored: no second Ready, no frame at   *)
(* all, no change of the subscriptions, of the Ready data or of the state. *)
(***************************************************************************)
C36_UserBoundOnce ==
    [][\A c \in Conns :
        /\ user_id[c] # None => user_id'[c] = user_id[c]
        /\ (/\ pc[c] = "loop"
            /\ \E t \in GatewayTokens \cup {GoodToken(u) : u \in Users} :
                  Reads(c, Text(Authenticate(t))))
           => /\ pc'[c] = "loop"
              /\ sent'[c] = sent[c]
              /\ subscribed' = subscribed
              /\ servers'[c] = servers[c]
              /\ channel_ids'[c] = channel_ids[c]
              /\ published' = published
              /\ busq' = busq
      ]_vars

\* the connection of u1 has read, in its relay loop, an Authenticate with a
\* valid token of u2 and is still u1's, with its one Ready
C36_Witness ==
    \E c \in Conns :
        /\ last.actor = c
        /\ last.op = "read"
        /\ last.arg.msg = Text(Authenticate(GoodToken("u2")))
        /\ last.arg.parsed
        /\ pc[c] = "loop"
        /\ user_id[c] = "u1"
        /\ sent[c] = <<Ready("u1", fetch_user_servers("u1"))>>
        /\ subscribed[c] = InitialTopics(c)

(***************************************************************************)
(* C37: a subscribe call that fails is ignored.  After the initial calls   *)
(* the connection holds the topics whose call succeeded and goes on to its *)
(* relay loop; a Subscribe frame whose call fails changes nothing and the  *)
(* loop continues; an event published on a topic the connection holds is   *)
(* handed to it whatever calls failed before.                              *)
(***************************************************************************)
C37_SubscribeFailureIgnored ==
    [][\A c \in Conns :
        /\ (/\ last'.actor = c
            /\ last'.op = "subscribe_all"
            /\ last'.arg.initOk
            /\ last'.arg.failed # {})
           => /\ pc'[c] = "spawning"
              /\ subscribed'[c] =
                    ({UserTopic(user_id[c])}
                     \cup {ChannelTopic(ch) : ch \in channel_ids[c]})
                    \ last'.arg.failed
        /\ (/\ pc[c] = "loop"
            /\ \E ch \in Channels : Reads(c, Text(Subscribe(ch)))
            /\ ~last'.arg.wok)
           => /\ pc'[c] = "loop"
              /\ subscribed' = subscribed
              /\ sent'[c] = sent[c]
        /\ (/\ published' # published
            /\ pc[c] = "loop"
            /\ published'[Len(published')].topic \in subscribed[c])
           => /\ c \in published'[Len(published')].to
              /\ busq'[c] = Append(busq[c], published'[Len(published')].payload)
      ]_vars

\* the subscribe call for channel:c2 failed; the connection of u1 is in its
\* relay loop with the other two topics and has relayed a message of c1
C37_Witness ==
    \E c \in Conns :
        /\ pc[c] = "loop"
        /\ user_id[c] = "u1"
        /\ channel_ids[c] = {"c1", "c2"}
        /\ subscribed[c] = {UserTopic("u1"), ChannelTopic("c1")}
        /\ \E i \in 1..Len(sent[c]) : sent[c][i] = MessageCreate(1, "c1", "u1")

====
